---- MODULE Spec2Model ----
(***************************************************************************)
(* The three circuit scripts of the repository (Bell state, Grover search, *)
(* quantum teleportation) as one state machine over an exact state vector. *)
(*                                                                         *)
(* An amplitude is a Gaussian integer <<re, im>>; the state vector is the  *)
(* record [amp, den] standing for the vector amp / sqrt(den).  Every gate  *)
(* of the scripts (H, X, Z, CX, CZ, multi-controlled Toffoli) maps such    *)
(* vectors to such vectors, so no rounding enters the model.               *)
(*                                                                         *)
(* Qubit q is bit q of the basis index (qubit 0 least significant), and    *)
(* classical bit 0 is the least significant bit of a register's value and  *)
(* the rightmost character of a counts key.                                *)
(***************************************************************************)
EXTENDS Integers, Sequences, FiniteSets, TLC

\* ---------------------------------------------------------------- bounds
\* Shot counts explored (the scripts ask for 1024 shots).
MaxShots == 3
\* Real and imaginary parts of the amplitudes of the teleported source state.
MaxAmp == 1
\* Qubit counts for which diffuser(nqubits) is built.
MaxQubits == 3
\* Amplitudes of the input vectors the phase-flip block is applied to.
MaxCoef == 1

\* ------------------------------------------------------ complex integers
CZero == <<0, 0>>

CAdd(a, b) == <<a[1] + b[1], a[2] + b[2]>>

CSub(a, b) == <<a[1] - b[1], a[2] - b[2]>>

CNeg(a) == <<0 - a[1], 0 - a[2]>>

CMul(a, b) == <<a[1] * b[1] - a[2] * b[2], a[1] * b[2] + a[2] * b[1]>>

CConj(a) == <<a[1], 0 - a[2]>>

CScale(k, a) == <<k * a[1], k * a[2]>>

CAbs2(a) == a[1] * a[1] + a[2] * a[2]

\* --------------------------------------------------------- basis indices
Pow2(k) == 2 ^ k

Dim(n) == Pow2(n)

Bit(i, q) == (i \div Pow2(q)) % 2

Flip(i, q) == IF Bit(i, q) = 0 THEN i + Pow2(q) ELSE i - Pow2(q)

Clear(i, q) == IF Bit(i, q) = 0 THEN i ELSE i - Pow2(q)

RECURSIVE SumAbs2(_, _)
\* Sum of |amp[i]|^2 over the indices 0 .. k-1.
SumAbs2(amp, k) == IF k = 0 THEN 0 ELSE CAbs2(amp[k - 1]) + SumAbs2(amp, k - 1)

NormSq(amp) == SumAbs2(amp, Cardinality(DOMAIN amp))

\* Squared weight of the basis states whose qubit q reads b.
Weight(amp, q, b) ==
    NormSq([i \in DOMAIN amp |-> IF Bit(i, q) = b THEN amp[i] ELSE CZero])

AllEven(amp) == \A i \in DOMAIN amp : amp[i][1] % 2 = 0 /\ amp[i][2] % 2 = 0

RECURSIVE Reduce(_)
\* The same vector with the common factor 2 cancelled against sqrt(den).
Reduce(sv) ==
    IF sv.den % 4 = 0 /\ AllEven(sv.amp)
    THEN Reduce([amp |-> [i \in DOMAIN sv.amp |->
                             <<sv.amp[i][1] \div 2, sv.amp[i][2] \div 2>>],
                 den |-> sv.den \div 4])
    ELSE sv

\* The all-zero basis state of n qubits.
ZeroState(n) ==
    [amp |-> [i \in 0 .. Dim(n) - 1 |-> IF i = 0 THEN <<1, 0>> ELSE CZero],
     den |-> 1]

\* ------------------------------------------------------------------ gates
ApplyH(sv, q) ==
    Reduce([amp |-> [i \in DOMAIN sv.amp |->
                        IF Bit(i, q) = 0
                        THEN CAdd(sv.amp[i], sv.amp[Flip(i, q)])
                        ELSE CSub(sv.amp[Flip(i, q)], sv.amp[i])],
            den |-> 2 * sv.den])

ApplyX(sv, q) ==
    [amp |-> [i \in DOMAIN sv.amp |-> sv.amp[Flip(i, q)]], den |-> sv.den]

ApplyZ(sv, q) ==
    [amp |-> [i \in DOMAIN sv.amp |->
                 IF Bit(i, q) = 1 THEN CNeg(sv.amp[i]) ELSE sv.amp[i]],
     den |-> sv.den]

ApplyCX(sv, c, t) ==
    [amp |-> [i \in DOMAIN sv.amp |->
                 IF Bit(i, c) = 1 THEN sv.amp[Flip(i, t)] ELSE sv.amp[i]],
     den |-> sv.den]

ApplyCZ(sv, a, b) ==
    [amp |-> [i \in DOMAIN sv.amp |->
                 IF Bit(i, a) = 1 /\ Bit(i, b) = 1
                 THEN CNeg(sv.amp[i]) ELSE sv.amp[i]],
     den |-> sv.den]

\* Mutant of ApplyMCT: the last control is left out.
ApplyMCT_DropsControl(sv, qs) ==
    LET t == qs[Len(qs)]
        on(i) == \A k \in 1 .. Len(qs) - 2 : Bit(i, qs[k]) = 1
    IN  [amp |-> [i \in DOMAIN sv.amp |->
                     IF on(i) THEN sv.amp[Flip(i, t)] ELSE sv.amp[i]],
         den |-> sv.den]

\* Multi-controlled Toffoli: qs lists the controls, then the target.
ApplyMCT(sv, qs) ==
    LET t == qs[Len(qs)]
        on(i) == \A k \in 1 .. Len(qs) - 1 : Bit(i, qs[k]) = 1
    IN  [amp |-> [i \in DOMAIN sv.amp |->
                     IF on(i) THEN sv.amp[Flip(i, t)] ELSE sv.amp[i]],
         den |-> sv.den]

ApplyGate(sv, kind, qs) ==
    CASE kind = "h"   -> ApplyH(sv, qs[1])
      [] kind = "x"   -> ApplyX(sv, qs[1])
      [] kind = "z"   -> ApplyZ(sv, qs[1])
      [] kind = "cx"  -> ApplyCX(sv, qs[1], qs[2])
      [] kind = "cz"  -> ApplyCZ(sv, qs[1], qs[2])
      [] kind = "mct" -> ApplyMCT(sv, qs)

GateKinds == {"h", "x", "z", "cx", "cz", "mct"}

\* --------------------------------------------------------------- circuits
\* One appended instruction.  qubits: the qubits acted on (for "mct" the
\* controls, then the target); clbit: the classical bit a measurement
\* writes; val, body: the register value an if_test compares with and the
\* gate its block applies to qubits.
Gate(kind, qs) ==
    [kind |-> kind, qubits |-> qs, clbit |-> 0, val |-> 0, body |-> "none"]

Barrier == Gate("barrier", <<>>)

Measurement(q, c) ==
    [kind |-> "measure", qubits |-> <<q>>, clbit |-> c, val |-> 0,
     body |-> "none"]

IfTest(v, kind, qs) ==
    [kind |-> "if_test", qubits |-> qs, clbit |-> 0, val |-> v, body |-> kind]

\* One instruction of the given kind on each of the qubits 0 .. n-1.
OnAll(kind, n) == [k \in 1 .. n |-> Gate(kind, <<k - 1>>)]

MeasureAll(n) == [k \in 1 .. n |-> Measurement(k - 1, k - 1)]

RECURSIVE Repeat(_, _)
Repeat(ops, k) == IF k = 0 THEN <<>> ELSE ops \o Repeat(ops, k - 1)

\* Mutant of BellCircuit: the CNOT is missing.
BellCircuit_NoCX ==
    <<Gate("h", <<0>>)>> \o MeasureAll(2)

BellCircuit ==
    <<Gate("h", <<0>>), Gate("cx", <<0, 1>>)>> \o MeasureAll(2)

\* The multi-controlled Z inside the diffuser: H, multi-controlled Toffoli, H.
PhaseFlipBlock(nqubits) ==
    <<Gate("h", <<nqubits - 1>>),
      Gate("mct", [k \in 1 .. nqubits |-> k - 1]),
      Gate("h", <<nqubits - 1>>)>>

diffuser(nqubits) ==
    OnAll("h", nqubits) \o OnAll("x", nqubits) \o PhaseFlipBlock(nqubits)
        \o OnAll("x", nqubits) \o OnAll("h", nqubits)

n == 2

oracle == <<Gate("cz", <<0, 1>>)>>

\* Mutant of iterations: the factor pi / 4 is missing.
iterations_NoFactor ==
    CHOOSE k \in 0 .. Pow2(n) :
        k * k <= Pow2(n) /\ (k + 1) * (k + 1) > Pow2(n)

\* int(floor(pi / 4 * sqrt(2 ** n))): the largest k with
\* k <= (pi / 4) * sqrt(N), that is 16 k^2 <= pi^2 N, pi^2 = 9.8696...
iterations ==
    CHOOSE k \in 0 .. Pow2(n) :
        /\ 160000 * k * k <= 98696 * Pow2(n)
        /\ 160000 * (k + 1) * (k + 1) > 98696 * Pow2(n)

grover_circuit ==
    OnAll("h", n) \o <<Barrier>>
        \o Repeat(oracle \o diffuser(n) \o <<Barrier>>, iterations)
        \o MeasureAll(n)

\* Mutant of TeleportCircuit: the first correction precedes the second
\* sender measurement.
TeleportCircuit_EarlyCorrection ==
    <<Gate("initialize", <<0>>), Barrier,
      Gate("h", <<1>>), Gate("cx", <<1, 2>>), Barrier,
      Gate("cx", <<0, 1>>), Gate("h", <<0>>), Barrier,
      Measurement(0, 0),
      IfTest(1, "x", <<2>>),
      Measurement(1, 1), Barrier,
      IfTest(2, "z", <<2>>)>>

\* Mutant of TeleportCircuit: the sender's Hadamard on the source is missing.
TeleportCircuit_NoSenderH ==
    <<Gate("initialize", <<0>>), Barrier,
      Gate("h", <<1>>), Gate("cx", <<1, 2>>), Barrier,
      Gate("cx", <<0, 1>>), Barrier,
      Measurement(0, 0), Measurement(1, 1), Barrier,
      IfTest(1, "x", <<2>>),
      IfTest(2, "z", <<2>>)>>

\* Teleportation: qubit 0 is source[0], qubits 1 and 2 are epr[0] and epr[1].
TeleportCircuit ==
    <<Gate("initialize", <<0>>), Barrier,
      Gate("h", <<1>>), Gate("cx", <<1, 2>>), Barrier,
      Gate("cx", <<0, 1>>), Gate("h", <<0>>), Barrier,
      Measurement(0, 0), Measurement(1, 1), Barrier,
      IfTest(1, "x", <<2>>),
      IfTest(2, "z", <<2>>)>>

Programs == {"bell", "grover", "teleport", "phaseflip"}

Circuit(p, nqubits) ==
    CASE p = "bell"      -> BellCircuit
      [] p = "grover"    -> grover_circuit
      [] p = "teleport"  -> TeleportCircuit
      [] p = "phaseflip" -> PhaseFlipBlock(nqubits)

\* ------------------------------------------------------------------ state
VARIABLES
    prog,            \* which script runs
    nq,              \* number of qubits of its circuit
    shots,           \* shots asked of the simulator
    random_ket,      \* <<alpha, beta>>: the source state to teleport
    sv0,             \* the state vector an execution starts from
    sv,              \* the state vector of the execution under way
    creg,            \* classical bits of the execution under way
    written,         \* classical bits a measurement has written so far
    applied,         \* gates applied by if_test blocks in this execution
    prob,            \* <<num, den>>: probability of the outcomes sampled so far
    ip,              \* index in the circuit of the next instruction
    shot,            \* executions completed
    counts,          \* bitstring -> number of shots that produced it
    bob_final_state, \* reduced density matrix of the receiver qubit
    vizFailed,       \* a visualization call has raised
    phase            \* "run", "results", "verify", "plot", "show", "done", "crashed"

vars ==
    <<prog, nq, shots, random_ket, sv0, sv, creg, written, applied, prob, ip,
      shot, counts, bob_final_state, vizFailed, phase>>

Amps == {<<re, im>> : re \in -MaxAmp .. MaxAmp, im \in -MaxAmp .. MaxAmp}

\* Source states: every nonzero <<alpha, beta>>, normalised by its norm.
SourceStates == {k \in Amps \X Amps : CAbs2(k[1]) + CAbs2(k[2]) > 0}

\* Input vectors of the phase-flip block: a |i> + b |j>.
InputVectors(nqubits) ==
    {Reduce([amp |-> [m \in 0 .. Dim(nqubits) - 1 |->
                        <<(IF m = i THEN a ELSE 0) + (IF m = j THEN b ELSE 0), 0>>],
             den |-> IF i = j THEN (a + b) * (a + b) ELSE a * a + b * b]) :
        <<i, j, a, b>> \in
            {t \in (0 .. Dim(nqubits) - 1) \X (0 .. Dim(nqubits) - 1)
                    \X (-MaxCoef .. MaxCoef) \X (-MaxCoef .. MaxCoef) :
                /\ t[1] <= t[2]
                /\ IF t[1] = t[2] THEN t[3] + t[4] # 0 ELSE t[3] # 0 /\ t[4] # 0}}

ClearBits == [c \in 0 .. 1 |-> 0]

NoRho == [m |-> [i \in 0 .. 1 |-> [j \in 0 .. 1 |-> CZero]], den |-> 1]

EmptyCounts == [k \in {} |-> 0]

Init ==
    /\ prog \in Programs
    /\ nq \in IF prog = "phaseflip" THEN 2 .. MaxQubits
              ELSE IF prog = "teleport" THEN {3} ELSE {2}
    /\ shots \in IF prog \in {"bell", "grover"} THEN 1 .. MaxShots ELSE {1}
    /\ random_ket \in IF prog = "teleport" THEN SourceStates
                      ELSE {<<<<1, 0>>, CZero>>}
    /\ sv0 \in IF prog = "phaseflip" THEN InputVectors(nq) ELSE {ZeroState(nq)}
    /\ sv = sv0
    /\ creg = ClearBits
    /\ written = {}
    /\ applied = {}
    /\ prob = <<1, 1>>
    /\ ip = 1
    /\ shot = 0
    /\ counts = EmptyCounts
    /\ bob_final_state = NoRho
    /\ vizFailed = FALSE
    /\ phase = "run"

ops == Circuit(prog, nq)

Fetching == phase = "run" /\ ip <= Len(ops)

\* ---------------------------------------------------------------- actions
\* A gate of the circuit acts on the state vector.
ApplyGateStep ==
    /\ Fetching
    /\ ops[ip].kind \in GateKinds
    /\ sv' = ApplyGate(sv, ops[ip].kind, ops[ip].qubits)
    /\ ip' = ip + 1
    /\ UNCHANGED <<prog, nq, shots, random_ket, sv0, creg, written, applied,
                   prob, shot, counts, bob_final_state, vizFailed, phase>>

BarrierStep ==
    /\ Fetching
    /\ ops[ip].kind = "barrier"
    /\ ip' = ip + 1
    /\ UNCHANGED <<prog, nq, shots, random_ket, sv0, sv, creg, written, applied,
                   prob, shot, counts, bob_final_state, vizFailed, phase>>

\* qc.initialize(random_ket, q): qubit q, in |0>, is set to random_ket.
Initialize(s, ket, q) ==
    [amp |-> [i \in DOMAIN s.amp |->
                 CMul(ket[Bit(i, q) + 1], s.amp[Clear(i, q)])],
     den |-> s.den * (CAbs2(ket[1]) + CAbs2(ket[2]))]

InitializeStep ==
    /\ Fetching
    /\ ops[ip].kind = "initialize"
    /\ Weight(sv.amp, ops[ip].qubits[1], 1) = 0
    /\ sv' = Initialize(sv, random_ket, ops[ip].qubits[1])
    /\ ip' = ip + 1
    /\ UNCHANGED <<prog, nq, shots, random_ket, sv0, creg, written, applied,
                   prob, shot, counts, bob_final_state, vizFailed, phase>>

\* Mutant of Project: the surviving amplitudes are not renormalised.
Project_NoRenormalise(s, q, b) ==
    [amp |-> [i \in DOMAIN s.amp |->
                 IF Bit(i, q) = b THEN s.amp[i] ELSE CZero],
     den |-> s.den]

\* Projection on qubit q reading b, renormalised: the surviving amplitudes
\* divided by the square root of the outcome's probability w / den.
Project(s, q, b) ==
    [amp |-> [i \in DOMAIN s.amp |->
                 IF Bit(i, q) = b THEN s.amp[i] ELSE CZero],
     den |-> Weight(s.amp, q, b)]

\* A measurement samples an outcome of nonzero probability, collapses the
\* state vector and writes the classical bit.
MeasureStep ==
    /\ Fetching
    /\ ops[ip].kind = "measure"
    /\ \E b \in 0 .. 1 :
          LET q == ops[ip].qubits[1]
              w == Weight(sv.amp, q, b)
          IN  /\ w > 0
              /\ sv' = Reduce(Project(sv, q, b))
              /\ creg' = [creg EXCEPT ![ops[ip].clbit] = b]
              /\ prob' = <<prob[1] * w, prob[2] * sv.den>>
    /\ written' = written \cup {ops[ip].clbit}
    /\ ip' = ip + 1
    /\ UNCHANGED <<prog, nq, shots, random_ket, sv0, applied, shot, counts,
                   bob_final_state, vizFailed, phase>>

\* Value of the classical register: classical bit 0 is the low bit.
RegValue(c) == c[0] + 2 * c[1]

\* if_test((register, val)): the block runs when the register's value is val.
IfTestHolds(op, c) == RegValue(c) = op.val

IfTestStep ==
    /\ Fetching
    /\ ops[ip].kind = "if_test"
    /\ IF IfTestHolds(ops[ip], creg)
       THEN /\ sv' = ApplyGate(sv, ops[ip].body, ops[ip].qubits)
            /\ applied' = applied \cup {ops[ip].body}
       ELSE UNCHANGED <<sv, applied>>
    /\ ip' = ip + 1
    /\ UNCHANGED <<prog, nq, shots, random_ket, sv0, creg, written, prob, shot,
                   counts, bob_final_state, vizFailed, phase>>

\* Key of a shot in the counts: the classical bits, bit 0 rightmost.
BitChar(b) == IF b = 0 THEN "0" ELSE "1"

RECURSIVE BitString(_, _)
BitString(c, k) ==
    IF k = 0 THEN "" ELSE BitChar(c[k - 1]) \o BitString(c, k - 1)

\* Mutant of Tally: a key seen again is stored, not incremented.
Tally_Overwrites(h, key) == (key :> 1) @@ h

Tally(h, key) ==
    IF key \in DOMAIN h THEN [h EXCEPT ![key] = @ + 1] ELSE (key :> 1) @@ h

\* One shot is over: its bitstring is counted, and the next shot starts from
\* a fresh state vector and cleared classical bits.
EndShot ==
    /\ phase = "run"
    /\ ip > Len(ops)
    /\ prog \in {"bell", "grover"}
    /\ counts' = Tally(counts, BitString(creg, 2))
    /\ shot' = shot + 1
    /\ IF shot + 1 < shots
       THEN /\ sv' = sv0
            /\ creg' = ClearBits
            /\ written' = {}
            /\ applied' = {}
            /\ prob' = <<1, 1>>
            /\ ip' = 1
            /\ phase' = "run"
       ELSE /\ phase' = "results"
            /\ UNCHANGED <<sv, creg, written, applied, prob, ip>>
    /\ UNCHANGED <<prog, nq, shots, random_ket, sv0, bob_final_state, vizFailed>>

\* counts = result.get_counts(...); print(counts)
GetCounts ==
    /\ phase = "results"
    /\ phase' = "plot"
    /\ UNCHANGED <<prog, nq, shots, random_ket, sv0, sv, creg, written, applied,
                   prob, ip, shot, counts, bob_final_state, vizFailed>>

\* plot = plot_histogram(counts, ...): called outside the try block, so an
\* exception it raises ends the script.
PlotHistogram ==
    /\ phase = "plot"
    /\ \E raised \in BOOLEAN :
          /\ vizFailed' = (vizFailed \/ raised)
          /\ phase' = IF raised THEN "crashed" ELSE "show"
    /\ UNCHANGED <<prog, nq, shots, random_ket, sv0, sv, creg, written, applied,
                   prob, ip, shot, counts, bob_final_state>>

\* try: plot.show()  except Exception: print(...)
PlotShow ==
    /\ phase = "show"
    /\ \E raised \in BOOLEAN :
          /\ vizFailed' = (vizFailed \/ raised)
          /\ phase' = "done"
    /\ UNCHANGED <<prog, nq, shots, random_ket, sv0, sv, creg, written, applied,
                   prob, ip, shot, counts, bob_final_state>>

RECURSIVE SumC(_, _)
\* Sum of the complex numbers f[0], ..., f[k-1].
SumC(f, k) == IF k = 0 THEN CZero ELSE CAdd(f[k - 1], SumC(f, k - 1))

\* partial_trace(state, traced) with one qubit, keep, left: the reduced
\* density matrix of qubit keep (entries over the denominator den).
PartialTrace(s, keep) ==
    LET d == Cardinality(DOMAIN s.amp)
        term(i, j) ==
            [m \in 0 .. d - 1 |->
                IF Bit(m, keep) = 0
                THEN CMul(s.amp[m + i * Pow2(keep)],
                          CConj(s.amp[m + j * Pow2(keep)]))
                ELSE CZero]
    IN  [m |-> [i \in 0 .. 1 |-> [j \in 0 .. 1 |-> SumC(term(i, j), d)]],
         den |-> s.den]

\* The teleportation circuit has run: the receiver's reduced state is taken.
Verify ==
    /\ phase = "run"
    /\ ip > Len(ops)
    /\ prog = "teleport"
    /\ bob_final_state' = PartialTrace(sv, 2)
    /\ phase' = "done"
    /\ UNCHANGED <<prog, nq, shots, random_ket, sv0, sv, creg, written, applied,
                   prob, ip, shot, counts, vizFailed>>

\* The phase-flip block has been applied to its input.
BlockDone ==
    /\ phase = "run"
    /\ ip > Len(ops)
    /\ prog = "phaseflip"
    /\ phase' = "done"
    /\ UNCHANGED <<prog, nq, shots, random_ket, sv0, sv, creg, written, applied,
                   prob, ip, shot, counts, bob_final_state, vizFailed>>

Next ==
    \/ ApplyGateStep
    \/ BarrierStep
    \/ InitializeStep
    \/ MeasureStep
    \/ IfTestStep
    \/ EndShot
    \/ GetCounts
    \/ PlotHistogram
    \/ PlotShow
    \/ Verify
    \/ BlockDone

Spec == Init /\ [][Next]_vars

\* ----------------------------------------------------------------- claims
marked_state == "11"

RECURSIVE SumCounts(_, _)
\* Sum of h[k] over the keys k in keys.
SumCounts(h, keys) ==
    IF keys = {} THEN 0
    ELSE LET k == CHOOSE x \in keys : TRUE
         IN  h[k] + SumCounts(h, keys \ {k})

\* A shot's circuit has been executed to its end.
CircuitOver == phase = "run" /\ ip > Len(ops)

\* The next instruction is the first measurement of the execution.
BeforeMeasurements ==
    Fetching /\ ops[ip].kind = "measure" /\ written = {}

\* The density matrix rho is the projector on ket (ket not normalised).
IsStateOf(rho, ket) ==
    \A i, j \in 0 .. 1 :
        CScale(CAbs2(ket[1]) + CAbs2(ket[2]), rho.m[i][j])
            = CScale(rho.den, CMul(ket[i + 1], CConj(ket[j + 1])))

\* C1: when the teleportation circuit has run, whatever the source state and
\* the two measured bits, the receiver qubit's reduced state is the source
\* state (up to global phase).
C1_RoundTrip ==
    (prog = "teleport" /\ phase = "done")
        => IsStateOf(bob_final_state, random_ket)

\* C2: every shot of the Bell circuit ends with the bitstring "00" or "11",
\* and the keys of the histogram are among "00" and "11".
C2_BellOutcomes ==
    prog = "bell" =>
        /\ DOMAIN counts \subseteq {"00", "11"}
        /\ CircuitOver => BitString(creg, 2) \in {"00", "11"}

C2_Witness ==
    /\ prog = "bell"
    /\ phase = "results"
    /\ shot >= 2
    /\ DOMAIN counts = {"00", "11"}

\* C3: with the computed iteration count (1 for n = 2), the state the Grover
\* circuit measures gives the marked bitstring "11" with probability above
\* 0.9, and a shot that ends with "11" was sampled with probability above 0.9.
C3_GroverFindsMarked ==
    prog = "grover" =>
        /\ BeforeMeasurements =>
              10 * Weight(Project(sv, 0, 1).amp, 1, 1) > 9 * sv.den
        /\ (CircuitOver /\ BitString(creg, 2) = marked_state) =>
              10 * prob[1] > 9 * prob[2]

C3_Witness ==
    /\ prog = "grover"
    /\ iterations = 1
    /\ CircuitOver
    /\ BitString(creg, 2) = marked_state
    /\ written = {0, 1}

\* C4: a failure of the visualization step, building the plot or showing
\* it, never ends the script with an unrecovered error.
C4_VisualizationRecovered == vizFailed => phase # "crashed"

\* C5: the counts of the histogram sum to the number of shots executed so
\* far, and to shots once the run is complete.
C5_CountsSum ==
    prog \in {"bell", "grover"} =>
        /\ SumCounts(counts, DOMAIN counts) = shot
        /\ phase # "run" => SumCounts(counts, DOMAIN counts) = shots

C5_Witness ==
    /\ prog = "bell"
    /\ phase = "done"
    /\ shots >= 3
    /\ Cardinality(DOMAIN counts) = 2

\* C6: in a finished teleportation shot X was applied to the receiver exactly
\* when the second classical bit is 1, and Z exactly when the first is 1.
C6_CorrectionsPerBit ==
    (prog = "teleport" /\ phase = "done") =>
        /\ ("x" \in applied) <=> (creg[1] = 1)
        /\ ("z" \in applied) <=> (creg[0] = 1)

\* C7: instructions run in the order appended: the classical bits written
\* are those of the measurements before the next instruction, and when a
\* conditional is evaluated both classical bits of the register it reads
\* have been written.
C7_MeasuredBeforeRead ==
    (prog = "teleport" /\ phase = "run") =>
        /\ written = {ops[k].clbit : k \in {j \in 1 .. ip - 1 : ops[j].kind = "measure"}}
        /\ (Fetching /\ ops[ip].kind = "if_test") => written = {0, 1}

C7_Witness ==
    /\ prog = "teleport"
    /\ Fetching
    /\ ops[ip].kind = "if_test"
    /\ ops[ip].val = 2
    /\ creg[0] = 1
    /\ creg[1] = 1

\* C8: after every gate and every measurement the squared magnitudes of the
\* amplitudes sum to 1 (the squared integer amplitudes sum to den).
C8_Normalized == NormSq(sv.amp) = sv.den

C8_Witness ==
    /\ prog = "teleport"
    /\ written = {0, 1}
    /\ phase = "done"
    /\ sv.den > 1

\* C9: the block H, multi-controlled Toffoli, H of diffuser(n) negates the
\* amplitude of the all-ones basis state and leaves every other amplitude
\* unchanged.
C9_PhaseFlip ==
    (prog = "phaseflip" /\ phase = "done") =>
        /\ sv.den = sv0.den
        /\ \A i \in DOMAIN sv0.amp :
              sv.amp[i] = IF i = Dim(nq) - 1 THEN CNeg(sv0.amp[i])
                          ELSE sv0.amp[i]

C9_Witness ==
    /\ prog = "phaseflip"
    /\ phase = "done"
    /\ nq = 3
    /\ sv0.amp[Dim(nq) - 1] # CZero
    /\ sv0.amp[Dim(nq) - 2] # CZero

\* C10: whatever the source state, each of the four outcomes of the two
\* sender measurements has probability 1/4.
C10_OutcomesUniform ==
    prog = "teleport" =>
        /\ BeforeMeasurements =>
              \A b0, b1 \in 0 .. 1 :
                  4 * Weight(Project(sv, 0, b0).amp, 1, b1) = sv.den
        /\ written = {0, 1} => 4 * prob[1] = prob[2]

C10_Witness ==
    /\ prog = "teleport"
    /\ written = {0, 1}
    /\ creg[0] = 1
    /\ creg[1] = 1
    /\ CAbs2(random_ket[1]) > CAbs2(random_ket[2])
    /\ CAbs2(random_ket[2]) > 0

====
